---- MODULE Spec2Model ----
(***************************************************************************)
(* Model of train_and_predict.py: the adaptive yes/no interview of         *)
(* ask_questions, the question selector get_next_question_from_gemini,     *)
(* get_suggestion and fetch_market_trend.                                  *)
(*                                                                         *)
(* Strings the code inspects (question texts, oracle responses, console    *)
(* input) are sequences of one-character strings, so that strip(), lower() *)
(* and list membership are computed as the code computes them.             *)
(***************************************************************************)
EXTENDS Integers, Sequences, FiniteSets, TLC

\* ---------------------------------------------------------------- bounds
\* largest number of records in a question source
MaxQ == 6
\* largest value of the min_questions parameter
MaxMin == 6
\* largest number of labelled fields in a generated market text
MaxFields == 4

\* ------------------------------------------------------- program constants
\* asked_count at which CSV branching is switched off (line 137)
BranchLimit == 5

None == "None"
NA == <<"N", "/", "A">>
DefaultQuestion == <<"D", "o", "?">>
Yes == <<"y", "e", "s">>
No == <<"n", "o">>

\* ------------------------------------------------------------ str helpers
Whitespace == {" ", "\n", "\t"}

Range(s) == {s[i] : i \in DOMAIN s}

RECURSIVE LStrip(_)
LStrip(s) == IF s = <<>> THEN s
             ELSE IF Head(s) \in Whitespace THEN LStrip(Tail(s)) ELSE s

RECURSIVE RStrip(_)
RStrip(s) == IF s = <<>> THEN s
             ELSE IF s[Len(s)] \in Whitespace
                  THEN RStrip(SubSeq(s, 1, Len(s) - 1)) ELSE s

\* str.strip()
Strip(s) == RStrip(LStrip(s))

LowerChar(c) == CASE c = "Y" -> "y"
                  [] c = "E" -> "e"
                  [] c = "S" -> "s"
                  [] c = "N" -> "n"
                  [] c = "O" -> "o"
                  [] OTHER -> c

\* str.lower()
Lower(s) == [i \in DOMAIN s |-> LowerChar(s[i])]

\* list.remove(x): drops the first occurrence of x
RemoveHead(s, x) == Tail(s)

RECURSIVE RemoveFirst(_, _)
RemoveFirst(s, x) == IF s = <<>> THEN s
                     ELSE IF Head(s) = x THEN Tail(s)
                     ELSE <<Head(s)>> \o RemoveFirst(Tail(s), x)

\* Series.unique(): distinct values in order of first appearance
RECURSIVE Unique(_)
Unique(s) == IF s = <<>> THEN s
             ELSE LET r == Unique(SubSeq(s, 1, Len(s) - 1))
                  IN  IF s[Len(s)] \in Range(r) THEN r ELSE Append(r, s[Len(s)])

\* --------------------------------------------------------- question source
IdName == <<"Q1", "Q2", "Q3", "Q4", "Q5", "Q6", "Q7", "Q8", "Q9">>
Letter == <<"a", "b", "c", "d", "e", "f", "g", "h", "i">>

\* pairs (shape of NextIfYes, shape of NextIfNo)
LinkShapes == { <<"next", "next">>, <<"next", "empty">>, <<"self", "next">>,
                <<"first", "next">>, <<"empty", "first">>, <<"empty", "empty">> }

\* branch target of record i under a link shape; "next" of the last record
\* names an identifier that is absent from the source (a dangling link)
Link(shape, i) == CASE shape = "next" -> IdName[i + 1]
                    [] shape = "empty" -> ""
                    [] shape = "self" -> IdName[i]
                    [] shape = "first" -> IdName[1]

\* the DataFrame load_questions returns: rows in file order
MakeSource(n, ys, ns) ==
    [i \in 1..n |-> [QuestionID |-> IdName[i],
                     Question   |-> <<Letter[i]>>,
                     NextIfYes  |-> Link(ys, i),
                     NextIfNo   |-> Link(ns, i)]]

\* Q1 -> (yes: Q2, no: Q3), Q2 -> ("", ""), Q3 absent, then two more records
ScenarioSource ==
    << [QuestionID |-> "Q1", Question |-> <<"a">>, NextIfYes |-> "Q2", NextIfNo |-> "Q3"],
       [QuestionID |-> "Q2", Question |-> <<"b">>, NextIfYes |-> "",   NextIfNo |-> ""],
       [QuestionID |-> "Q4", Question |-> <<"d">>, NextIfYes |-> "Q1", NextIfNo |-> "Q5"],
       [QuestionID |-> "Q5", Question |-> <<"e">>, NextIfYes |-> "",   NextIfNo |-> "Q4"] >>

\* a branch chain Q1, Q3, Q4, Q5, Q6, Q7 that leaves Q2 aside
LongSource ==
    << [QuestionID |-> "Q1", Question |-> <<"a">>, NextIfYes |-> "Q3", NextIfNo |-> "Q3"],
       [QuestionID |-> "Q2", Question |-> <<"b">>, NextIfYes |-> "",   NextIfNo |-> ""],
       [QuestionID |-> "Q3", Question |-> <<"c">>, NextIfYes |-> "Q4", NextIfNo |-> "Q4"],
       [QuestionID |-> "Q4", Question |-> <<"d">>, NextIfYes |-> "Q5", NextIfNo |-> "Q5"],
       [QuestionID |-> "Q5", Question |-> <<"e">>, NextIfYes |-> "Q6", NextIfNo |-> "Q6"],
       [QuestionID |-> "Q6", Question |-> <<"f">>, NextIfYes |-> "Q7", NextIfNo |-> "Q7"],
       [QuestionID |-> "Q7", Question |-> <<"g">>, NextIfYes |-> "",   NextIfNo |-> "Q2"] >>

Sources == {MakeSource(n, sh[1], sh[2]) : n \in 1..MaxQ, sh \in LinkShapes}
           \cup {ScenarioSource, LongSource}

StartIds == {"Q1", "S1"}

\* questions["QuestionID"].values
IdsOf(qs) == {qs[i].QuestionID : i \in DOMAIN qs}

\* questions[questions["QuestionID"] == id]
RowsById(qs, id) == SelectSeq(qs, LAMBDA r : r.QuestionID = id)

\* questions[questions["Question"] == text]
RowsByText(qs, text) == SelectSeq(qs, LAMBDA r : r.Question = text)

\* matching_row.iloc[0]["QuestionID"] if not matching_row.empty else None
MatchingId(qs, text) == IF RowsByText(qs, text) = <<>> THEN None
                        ELSE RowsByText(qs, text)[1].QuestionID

\* truth value of an identifier: None and "" are false
Truthy(id) == id # None /\ id # ""

\* ------------------------------------------------------------ oracle, input
Failure == [ok |-> FALSE, text |-> <<>>]
Success(t) == [ok |-> TRUE, text |-> t]

\* what model.generate_content may answer to a question-selection prompt
SelectResponses == { <<" ", "c", "\n">>, <<"z">> }
SelectOutcomes == {Failure} \cup {Success(t) : t \in SelectResponses}

\* what it may answer to the suggestion prompt
SuggestResponses == { <<" ", "d", "e", "v", "\n">> }
SuggestOutcomes == {Failure} \cup {Success(t) : t \in SuggestResponses}

\* what the user may type at the prompt
RawInputs == { <<"y", "e", "s">>, <<" ", "Y", "E", "S", " ">>, <<"n", "o">>,
               <<"N", "o", "\n">>, <<"m">>, <<>> }

\* ---------------------------------------------- get_next_question_from_gemini
\* lines 44-50: the trimmed response when it is in the list, else the first
\* entry; an empty list raises inside the try and ends in the except branch
GetNextQuestionMutant(o, remaining) ==
    IF o.ok /\ Strip(o.text) \in Range(remaining) THEN Strip(o.text)
    ELSE IF remaining # <<>> THEN remaining[Len(remaining)] ELSE DefaultQuestion

GetNextQuestionFromGemini(o, remaining) ==
    IF o.ok /\ Strip(o.text) \in Range(remaining) THEN Strip(o.text)
    ELSE IF remaining # <<>> THEN remaining[1] ELSE DefaultQuestion

\* ------------------------------------------------------------ get_suggestion
GetSuggestionMutant(o) == Strip(o.text)

GetSuggestion(o) == IF o.ok THEN Strip(o.text) ELSE NA

\* -------------------------------------------------------- fetch_market_trend
\* A market text is a sequence of units; a label name is one unit, so that
\* key + ":" is the two-unit sequence << key, ":" >>.  Positions are 0-based.
Keys == <<"Market Demand", "Top Skills", "Expected Salary Range",
          "Aligns with Market Trends">>
RawOutput == "Raw Output"
ErrorText == <<"e", "r", "r">>
BlankLine == <<"\n", "\n">>

\* len(key) in units
KeyLen(k) == Len(<<Keys[k]>>)

MinOf(S) == CHOOSE x \in S : \A y \in S : x <= y

\* text.find(sub, from)
Find(text, sub, from) ==
    LET hits == {p \in from..(Len(text) - Len(sub)) :
                    SubSeq(text, p + 1, p + Len(sub)) = sub}
    IN  IF hits = {} THEN -1 ELSE MinOf(hits)

\* text[a:b]
Slice(text, a, b) == SubSeq(text, a + 1, b)

\* line 99: text.find(key + ":", current_pos)
FindKeyFromStart(text, k, cur) == Find(text, <<Keys[k], ":">>, 0)

FindKeyPastCursor(text, k, cur) == Find(text, <<Keys[k], ":">>, cur + 1)

FindKey(text, k, cur) == Find(text, <<Keys[k], ":">>, cur)

\* lines 102-106: earliest occurrence of a later label after start
NextKeyPosNone(text, k, start) == Len(text)

NextKeyPos(text, k, start) ==
    MinOf({Len(text)} \cup
          {Find(text, <<Keys[j], ":">>, start + 1) :
              j \in {i \in (k + 1)..Len(Keys) :
                        Find(text, <<Keys[i], ":">>, start + 1) # -1}})

\* one iteration of the loop of lines 98-112 for label k with cursor cur
ExtractStep(text, k, cur) ==
    LET start == FindKey(text, k, cur)
        end0  == IF Find(text, BlankLine, start) # -1
                 THEN Find(text, BlankLine, start) ELSE Len(text)
        nkp   == NextKeyPos(text, k, start)
        end   == IF nkp # Len(text) THEN MinOf({end0, nkp}) ELSE end0
    IN  IF start # -1
        THEN [found |-> TRUE, start |-> start, pos |-> end,
              value |-> Strip(Slice(text, start + KeyLen(k) + 1, end))]
        ELSE [found |-> FALSE, start |-> -1, pos |-> cur, value |-> NA]

\* current_pos when the loop reaches label k
RECURSIVE CursorBefore(_, _)
CursorBefore(text, k) ==
    IF k = 1 THEN 0 ELSE ExtractStep(text, k - 1, CursorBefore(text, k - 1)).pos

KeyIndex(key) == CHOOSE k \in DOMAIN Keys : Keys[k] = key

\* lines 94-114: the data dictionary built from the oracle text
ExtractFields(text) ==
    [f \in Range(Keys) \cup {RawOutput} |->
        IF f = RawOutput THEN text
        ELSE ExtractStep(text, KeyIndex(f), CursorBefore(text, KeyIndex(f))).value]

\* lines 90-123
FetchMarketTrend(o) ==
    IF o.ok THEN ExtractFields(o.text)
    ELSE [f \in Range(Keys) \cup {RawOutput} |->
             IF f = RawOutput THEN ErrorText ELSE NA]

\* what the oracle may answer to the market prompt
MarketResponses ==
    { << "Market Demand", ":", " ", "h", "\n", "\n", "Top Skills", ":", " ", "p",
         "\n", "\n", "Expected Salary Range", ":", " ", "6", "\n", "\n",
         "Aligns with Market Trends", ":", " ", "y" >>,
      << "Top Skills", ":", "p", "\n", "Aligns with Market Trends", ":", "y", "\n" >> }
MarketOutcomes == {Failure} \cup {Success(t) : t \in MarketResponses}

\* line 94: data = {"Raw Output": text}
InitialDataStripped(text) == (RawOutput :> Strip(text))

InitialData(text) == (RawOutput :> text)

\* lines 117-123: the dictionary returned when the oracle call fails
FailureData == [f \in Range(Keys) \cup {RawOutput} |->
                   IF f = RawOutput THEN ErrorText ELSE NA]

\* Generated market texts: an optional preamble, then fields.  A field is
\* label, ":", a value with surrounding whitespace and an inner newline, and
\* either nothing or a blank line after it.
Digit == <<"1", "2", "3", "4">>
Preamble == <<" ", "j", "\n">>
FieldValue(l) == <<" ", Digit[l], "\n", "v", "\n">>
FieldText(f) == <<Keys[f.label], ":">> \o FieldValue(f.label)
                   \o (IF f.blank THEN BlankLine ELSE <<>>)

FieldSet == [label : DOMAIN Keys, blank : BOOLEAN]

RECURSIVE SeqsUpTo(_, _)
SeqsUpTo(S, n) == IF n = 0 THEN {<<>>}
                  ELSE SeqsUpTo(S, n - 1) \cup
                       {Append(q, x) : q \in {r \in SeqsUpTo(S, n - 1) : Len(r) = n - 1},
                                       x \in S}

Layouts == [pre : BOOLEAN, fields : SeqsUpTo(FieldSet, MaxFields)]

RECURSIVE Concat(_)
Concat(ss) == IF ss = <<>> THEN <<>> ELSE Head(ss) \o Concat(Tail(ss))

Render(lay) == (IF lay.pre THEN Preamble ELSE <<>>)
                  \o Concat([i \in DOMAIN lay.fields |-> FieldText(lay.fields[i])])

\* ------------------------------------------------------------- ask_questions
VARIABLES
    questions,            \* the DataFrame passed in
    start_id,             \* parameter
    min_questions,        \* parameter
    history,              \* list of (question, answer)
    asked_ids,            \* set of asked QuestionIDs
    remaining_questions,  \* list of texts still available
    current_id,
    asked_count,
    use_csv_branching,
    question,             \* local: the question to present
    next_yes,             \* local: NextIfYes of the current row
    next_no,              \* local: NextIfNo of the current row
    answer,               \* local: the normalised answer
    oracle,               \* outcome of the latest generate_content call
    suggestion,
    market_data,
    pc,                   \* position in ask_questions or fetch_market_trend
    layout,               \* how the oracle's market text is composed
    text,                 \* fetch_market_trend: response.text
    current_pos,          \* fetch_market_trend: the cursor
    data,                 \* fetch_market_trend: the dictionary being built
    matches               \* fetch_market_trend: start and end of each iteration so far

vars == <<questions, start_id, min_questions, history, asked_ids,
          remaining_questions, current_id, asked_count, use_csv_branching,
          question, next_yes, next_no, answer, oracle, suggestion,
          market_data, pc, layout, text, current_pos, data, matches>>

\* the locals of a separate call of fetch_market_trend
evars == <<layout, text, current_pos, data, matches>>

\* the state of ask_questions
ivars == <<questions, start_id, min_questions, history, asked_ids,
           remaining_questions, current_id, asked_count, use_csv_branching,
           question, next_yes, next_no, answer, oracle, suggestion, market_data>>

params == <<questions, start_id, min_questions>>

NoOutcome == [ok |-> FALSE, text |-> <<"-">>]
NoData == [f \in Range(Keys) \cup {RawOutput} |-> <<>>]

\* lines 127-133
Init ==
    /\ questions \in Sources
    /\ start_id \in StartIds
    /\ min_questions \in 1..MaxMin
    /\ history = <<>>
    /\ asked_ids = {}
    /\ remaining_questions =
          Unique([i \in DOMAIN questions |-> questions[i].Question])
    /\ current_id = start_id
    /\ asked_count = 0
    /\ use_csv_branching = TRUE
    /\ question = <<>>
    /\ next_yes = ""
    /\ next_no = ""
    /\ answer = <<>>
    /\ oracle = NoOutcome
    /\ suggestion = <<>>
    /\ market_data = NoData
    /\ pc = "loop"
    /\ layout = [pre |-> FALSE, fields |-> <<>>]
    /\ text = <<>>
    /\ current_pos = 0
    /\ data = <<>>
    /\ matches = <<>>

\* line 135
LoopCondMutant(count, minq) == count <= minq

LoopCondEarly(count, minq) == count + 1 < minq

LoopCondIgnored(count, minq) == TRUE

LoopCond(count, minq) == count < minq

\* lines 137-138
ModeDecisionMutant(use, count) == count < BranchLimit

ModeDecisionLate(use, count) == IF count > BranchLimit THEN FALSE ELSE use

ModeDecision(use, count) == IF count >= BranchLimit THEN FALSE ELSE use

\* line 181
ValidTargetMutant(next_id, qs, asked) ==
    next_id # "" /\ next_id \in IdsOf(qs)

ValidTargetDangling(next_id, qs, asked) ==
    next_id # "" /\ next_id \notin asked

ValidTarget(next_id, qs, asked) ==
    next_id # "" /\ next_id \in IdsOf(qs) /\ next_id \notin asked

\* the guard "if remaining_questions:" of lines 154, 185, 196
PoolAvailableMutant(remaining) == Len(remaining) > 1

PoolAvailableAlways(remaining) == TRUE

PoolAvailable(remaining) == remaining # <<>>

\* lines 154-163, 185-193, 196-204: select with the oracle, or break
OracleSelect(next_pc) ==
    IF PoolAvailable(remaining_questions)
    THEN \E o \in SelectOutcomes :
           LET q  == GetNextQuestionFromGemini(o, remaining_questions)
               id == MatchingId(questions, q)
           IN  /\ oracle' = o
               /\ question' = q
               /\ current_id' = id
               /\ asked_ids' = IF Truthy(id) THEN asked_ids \cup {id} ELSE asked_ids
               /\ pc' = next_pc
    ELSE /\ pc' = "suggest"
         /\ UNCHANGED <<oracle, question, current_id, asked_ids>>

\* lines 135-163: loop test, mode decision and question selection
Select ==
    /\ pc = "loop"
    /\ IF ~LoopCond(asked_count, min_questions)
       THEN /\ pc' = "suggest"
            /\ UNCHANGED <<use_csv_branching, oracle, question, current_id,
                           asked_ids, next_yes, next_no>>
       ELSE IF ModeDecision(use_csv_branching, asked_count)
       THEN IF RowsById(questions, current_id) = <<>>
            THEN \E o \in SelectOutcomes :
                   /\ use_csv_branching' = FALSE
                   /\ oracle' = o
                   /\ question' = GetNextQuestionFromGemini(o, remaining_questions)
                   /\ current_id' = None
                   /\ pc' = "ask"
                   /\ UNCHANGED <<asked_ids, next_yes, next_no>>
            ELSE LET row == RowsById(questions, current_id)[1]
                 IN  /\ use_csv_branching' = ModeDecision(use_csv_branching, asked_count)
                     /\ question' = row.Question
                     /\ next_yes' = row.NextIfYes
                     /\ next_no' = row.NextIfNo
                     /\ asked_ids' = asked_ids \cup {current_id}
                     /\ pc' = "ask"
                     /\ UNCHANGED <<oracle, current_id>>
       ELSE /\ use_csv_branching' = FALSE
            /\ OracleSelect("ask")
            /\ UNCHANGED <<next_yes, next_no>>
    /\ UNCHANGED <<params, history, remaining_questions, asked_count, answer,
                   suggestion, market_data, evars>>

\* lines 166-169: strip().lower(), anything but yes/no becomes no
NormalizeAnswer(raw) ==
    IF Lower(Strip(raw)) \in {Yes, No} THEN Lower(Strip(raw)) ELSE No

\* lines 166-175
AskMutant ==
    /\ pc = "ask"
    /\ \E raw \in RawInputs :
         IF Lower(Strip(raw)) \in {Yes, No}
         THEN /\ answer' = Lower(Strip(raw))
              /\ history' = Append(history, <<question, answer'>>)
              /\ remaining_questions' =
                    IF question \in Range(remaining_questions)
                    THEN RemoveFirst(remaining_questions, question)
                    ELSE remaining_questions
              /\ asked_count' = asked_count + 1
              /\ pc' = "advance"
         ELSE /\ pc' = "loop"
              /\ UNCHANGED <<answer, history, remaining_questions, asked_count>>
    /\ UNCHANGED <<params, asked_ids, current_id, use_csv_branching, question,
                   next_yes, next_no, oracle, suggestion, market_data, evars>>

AskCountOnly ==
    /\ pc = "ask"
    /\ \E raw \in RawInputs :
         /\ answer' = NormalizeAnswer(raw)
         /\ history' = IF Lower(Strip(raw)) \in {Yes, No}
                       THEN Append(history, <<question, answer'>>)
                       ELSE history
         /\ remaining_questions' =
               IF question \in Range(remaining_questions)
               THEN RemoveFirst(remaining_questions, question)
               ELSE remaining_questions
         /\ asked_count' = asked_count + 1
         /\ pc' = "advance"
    /\ UNCHANGED <<params, asked_ids, current_id, use_csv_branching, question,
                   next_yes, next_no, oracle, suggestion, market_data, evars>>

Ask ==
    /\ pc = "ask"
    /\ \E raw \in RawInputs :
         /\ answer' = NormalizeAnswer(raw)
         /\ history' = Append(history, <<question, answer'>>)
         /\ remaining_questions' =
               IF question \in Range(remaining_questions)
               THEN RemoveFirst(remaining_questions, question)
               ELSE remaining_questions
         /\ asked_count' = asked_count + 1
         /\ pc' = "advance"
    /\ UNCHANGED <<params, asked_ids, current_id, use_csv_branching, question,
                   next_yes, next_no, oracle, suggestion, market_data, evars>>

\* lines 178-204
Advance ==
    /\ pc = "advance"
    /\ IF use_csv_branching /\ Truthy(current_id)
       THEN LET next_id == IF answer = Yes THEN next_yes ELSE next_no
            IN  IF ValidTarget(next_id, questions, asked_ids)
                THEN /\ current_id' = next_id
                     /\ pc' = "loop"
                     /\ UNCHANGED <<use_csv_branching, oracle, question, asked_ids>>
                ELSE /\ use_csv_branching' = FALSE
                     /\ OracleSelect("loop")
       ELSE /\ OracleSelect("loop")
            /\ UNCHANGED use_csv_branching
    /\ UNCHANGED <<params, history, remaining_questions, asked_count, answer,
                   next_yes, next_no, suggestion, market_data, evars>>

\* line 207
Suggest ==
    /\ pc = "suggest"
    /\ \E o \in SuggestOutcomes :
         /\ oracle' = o
         /\ suggestion' = GetSuggestion(o)
    /\ pc' = "market"
    /\ UNCHANGED <<params, history, asked_ids, remaining_questions, current_id,
                   asked_count, use_csv_branching, question, next_yes, next_no,
                   answer, market_data, evars>>

\* line 210
Market ==
    /\ pc = "market"
    /\ \E o \in MarketOutcomes :
         /\ oracle' = o
         /\ market_data' = FetchMarketTrend(o)
    /\ pc' = "done"
    /\ UNCHANGED <<params, history, asked_ids, remaining_questions, current_id,
                   asked_count, use_csv_branching, question, next_yes, next_no,
                   answer, suggestion, evars>>

Next == Select \/ Ask \/ Advance \/ Suggest \/ Market

Spec == Init /\ [][Next]_vars

\* the console and the oracle always answer: every enabled step is taken
FairSpec == Spec /\ WF_vars(Next)

\* ------------------------------------- fetch_market_trend, statement by statement
\* a call of fetch_market_trend on its own: the oracle's text is any layout
ExtractInit ==
    /\ questions = ScenarioSource
    /\ start_id = "Q1"
    /\ min_questions = 1
    /\ history = <<>>
    /\ asked_ids = {}
    /\ remaining_questions = <<>>
    /\ current_id = None
    /\ asked_count = 0
    /\ use_csv_branching = FALSE
    /\ question = <<>>
    /\ next_yes = ""
    /\ next_no = ""
    /\ answer = <<>>
    /\ oracle = NoOutcome
    /\ suggestion = <<>>
    /\ market_data = NoData
    /\ pc = "fetch"
    /\ layout \in Layouts
    /\ text = Render(layout)
    /\ current_pos = 0
    /\ data = <<>>
    /\ matches = <<>>

\* lines 90-97 and 116-123: the oracle call, then the dictionary and the cursor
Fetch ==
    /\ pc = "fetch"
    /\ \E ok \in BOOLEAN :
         IF ok
         THEN /\ data' = InitialData(text)
              /\ current_pos' = 0
              /\ pc' = "keys"
         ELSE /\ data' = FailureData
              /\ pc' = "fetched"
              /\ UNCHANGED current_pos
    /\ UNCHANGED <<ivars, layout, text, matches>>

\* lines 98-112: one iteration of the loop over keys
ExtractKey ==
    /\ pc = "keys"
    /\ Len(matches) < Len(Keys)
    /\ LET k == Len(matches) + 1
           r == ExtractStep(text, k, current_pos)
       IN  /\ data' = (Keys[k] :> r.value) @@ data
           /\ current_pos' = r.pos
           /\ matches' = Append(matches, [found |-> r.found, start |-> r.start,
                                         end |-> r.pos])
    /\ UNCHANGED <<ivars, pc, layout, text>>

\* line 114
ExtractReturn ==
    /\ pc = "keys"
    /\ Len(matches) = Len(Keys)
    /\ pc' = "fetched"
    /\ UNCHANGED <<ivars, evars>>

ExtractNext == Fetch \/ ExtractKey \/ ExtractReturn

ExtractSpec == ExtractInit /\ [][ExtractNext]_vars

\* ------------------------------------------------------------- properties
\* distinct question texts of the source
TextSet == {questions[i].Question : i \in DOMAIN questions}
NumTexts == Cardinality(TextSet)

\* the while loop of lines 135-204 has been left
LoopLeft == pc \in {"suggest", "market", "done"}

HistoryTexts == [i \in DOMAIN history |-> history[i][1]]

Smaller(a, b) == IF a <= b THEN a ELSE b

\* C1: when the question loop has been left, the number of questions asked
\* is at least min(min_questions, number of distinct question texts).
C1_AsksAtLeastMinimum ==
    LoopLeft => Len(history) >= Smaller(min_questions, NumTexts)

C1_Witness ==
    /\ LoopLeft
    /\ NumTexts < min_questions
    /\ Len(history) = NumTexts
    /\ Len(history) >= 3

\* C2: the question texts in history are pairwise distinct in every state.
C2_NoDuplicateQuestion ==
    \A i \in DOMAIN history : \A j \in DOMAIN history :
        i # j => history[i][1] # history[j][1]

\* two questions reached by branching, two chosen by the selector
C2_Witness ==
    /\ questions = ScenarioSource
    /\ start_id = "Q1"
    /\ Len(history) = 4
    /\ history[2][1] = <<"b">>

\* C3: once use_csv_branching is false it stays false, and every later
\* question comes from the selector: it is taken from the remaining pool and
\* current_id is the identifier matching its text, not a yes/no link.
C3_ModeSwitchOneWay ==
    [][~use_csv_branching =>
          /\ ~use_csv_branching'
          /\ (pc' = "ask" =>
                 /\ question' \in Range(remaining_questions)
                 /\ current_id' = MatchingId(questions, question'))]_vars

\* branching was abandoned before the fifth turn and the interview went on
C3_Witness ==
    /\ ~use_csv_branching
    /\ pc = "ask"
    /\ asked_count < BranchLimit
    /\ asked_count >= 2
    /\ start_id = "Q1"

\* C4: the question loop is left after finitely many turns, also when the
\* yes/no links form cycles or self-loops.
C4_LoopTerminates == <>LoopLeft

\* the loop was left although Q1 links to itself and the user said yes
C4_Witness ==
    /\ LoopLeft
    /\ start_id = "Q1"
    /\ questions[1].NextIfYes = "Q1"
    /\ Len(history) >= 2
    /\ history[1] = << <<"a">>, Yes >>

\* C5: the loop ends below min_questions only with an empty pool, and a step
\* of the loop that finds the pool empty ends the loop at once without asking.
C5_EarlyEndOnlyOnEmptyPool ==
    /\ [](LoopLeft /\ asked_count < min_questions => remaining_questions = <<>>)
    /\ [][(pc \in {"loop", "advance"} /\ remaining_questions = <<>>) =>
             (pc' = "suggest" /\ history' = history)]_vars

C5_Witness ==
    /\ pc = "suggest"
    /\ asked_count < min_questions
    /\ asked_count >= 2
    /\ remaining_questions = <<>>

\* C6 as stated: when the loop ends with the turn count at or above the
\* minimum, the remaining pool is empty.
C6_StopsOnlyWhenPoolEmpty ==
    LoopLeft /\ asked_count >= min_questions => remaining_questions = <<>>

\* C6 amended: the loop ends as soon as the turn count reaches min_questions,
\* whether or not unasked questions remain: the count is then exactly
\* min_questions and the pool holds every distinct text not asked so far.
C6_StopsAtMinimum ==
    LoopLeft /\ asked_count >= min_questions =>
        /\ asked_count = min_questions
        /\ Len(remaining_questions) = NumTexts - min_questions
        /\ Range(remaining_questions) = TextSet \ Range(HistoryTexts)

C6_Witness ==
    /\ LoopLeft
    /\ asked_count = min_questions
    /\ Len(remaining_questions) >= 2

\* C7: a selection over a non-empty pool returns the trimmed response when it
\* is an element of the pool and the first element of the pool otherwise (no
\* match, or oracle failure); the result is always a member of the pool.
\* In oracle-driven mode before the question is asked, question, oracle and
\* remaining_questions are the result and the arguments of the latest call.
C7_SelectorContract ==
    (pc \in {"ask", "loop"} /\ ~use_csv_branching /\ remaining_questions # <<>>) =>
        /\ question \in Range(remaining_questions)
        /\ (oracle.ok /\ Strip(oracle.text) \in Range(remaining_questions)
               => question = Strip(oracle.text))
        /\ (~(oracle.ok /\ Strip(oracle.text) \in Range(remaining_questions))
               => question = remaining_questions[1])

\* a padded response was trimmed and matched an entry that is not the first
C7_Witness ==
    /\ pc = "ask"
    /\ ~use_csv_branching
    /\ oracle.ok
    /\ oracle.text # Strip(oracle.text)
    /\ question = Strip(oracle.text)
    /\ Len(remaining_questions) >= 2
    /\ question # remaining_questions[1]

\* C8: no oracle failure aborts ask_questions: after a failed selection the
\* fallback question is presented, a failed suggestion or market call yields
\* the sentinel, and every run that saw a failure still reaches the end with
\* a recommendation and a market report.
C8_OracleFailureNeverAborts ==
    /\ [](((pc \in {"ask", "loop"} /\ ~use_csv_branching /\ oracle = Failure
              /\ remaining_questions # <<>>)
             => (question = remaining_questions[1]))
          /\ ((pc = "market" /\ oracle = Failure) => (suggestion = NA))
          /\ ((pc = "done" /\ oracle = Failure) =>
                ((\A k \in DOMAIN Keys : market_data[Keys[k]] = NA)
                   /\ market_data[RawOutput] = ErrorText)))
    /\ ((oracle = Failure) ~>
          (pc = "done" /\ suggestion # <<>> /\ market_data # NoData))

\* suggestion and market call both failed, the report is all sentinels
C8_Witness ==
    /\ pc = "done"
    /\ suggestion = NA
    /\ oracle = Failure
    /\ market_data["Top Skills"] = NA
    /\ Len(history) >= 2

\* C9: in the advance step of a branching-mode turn the branch target
\* becomes current_id iff it is non-empty, names an existing record and is
\* not in asked_ids; otherwise branching is abandoned in that step.  In the
\* scenario source, after "yes" at Q1 the engine is still branching at Q2.
C9_BranchTargetAccepted ==
    /\ [][(pc = "advance" /\ use_csv_branching /\ current_id \notin {None, ""}) =>
            LET target == IF answer = Yes THEN next_yes ELSE next_no
                ok == /\ target # ""
                      /\ \E i \in DOMAIN questions : questions[i].QuestionID = target
                      /\ target \notin asked_ids
            IN  /\ ok => (use_csv_branching' /\ current_id' = target /\ pc' = "loop")
                /\ ~ok => ~use_csv_branching']_vars
    /\ []((/\ questions = ScenarioSource
            /\ start_id = "Q1"
            /\ history = << << <<"a">>, Yes >> >>
            /\ pc \in {"loop", "ask"})
           => (use_csv_branching /\ current_id = "Q2"))

\* the scenario: Q1 yes, Q2 answered, and only then oracle-driven mode
C9_Witness ==
    /\ questions = ScenarioSource
    /\ start_id = "Q1"
    /\ Len(history) = 2
    /\ history[1] = << <<"a">>, Yes >>
    /\ history[2][1] = <<"b">>
    /\ ~use_csv_branching
    /\ pc = "loop"

FieldLabels == [i \in DOMAIN layout.fields |-> layout.fields[i].label]

LabelPresent(l) == \E i \in DOMAIN FieldLabels : FieldLabels[i] = l

\* the labels that occur do so once each and in the order of keys
LabelsInOrder ==
    \A i \in DOMAIN FieldLabels : \A j \in DOMAIN FieldLabels :
        i < j => FieldLabels[i] < FieldLabels[j]

\* the value written after label l, trimmed
ExpectedValue(l) == <<Digit[l], "\n", "v">>

\* the oracle call succeeded and the loop over keys has finished
Extracted == pc = "fetched" /\ Len(matches) = Len(Keys)

\* key + ":" occurs in text at 0-based position p
OccursAt(k, p) ==
    /\ p >= 0
    /\ p + 2 <= Len(text)
    /\ text[p + 1] = Keys[k]
    /\ text[p + 2] = ":"

MaxOf(S) == CHOOSE x \in S : \A y \in S : x >= y

\* end of the last span extracted before iteration k, 0 when there is none
SpanEndBefore(k) ==
    LET prev == {j \in 1..(k - 1) : matches[j].found}
    IN  IF prev = {} THEN 0 ELSE matches[MaxOf(prev)].end

\* C11: for a text with the four labels once each in order, each value free
\* of labels and blank lines and followed by a blank line, the next label or
\* the end of the text, every field is exactly the trimmed value of its label.
C11_FourLabelsExtracted ==
    (Extracted /\ FieldLabels = <<1, 2, 3, 4>>) =>
        \A l \in DOMAIN Keys : data[Keys[l]] = ExpectedValue(l)

\* preamble, first value ended by a blank line, second by the next label
C11_Witness ==
    /\ Extracted
    /\ FieldLabels = <<1, 2, 3, 4>>
    /\ layout.pre
    /\ layout.fields[1].blank
    /\ ~layout.fields[2].blank
    /\ ~layout.fields[4].blank
    /\ data["Top Skills"] = <<"2", "\n", "v">>

\* C12 as stated: for every text with some label missing, exactly the
\* missing labels' fields are "N/A" and every present label has its value.
C12_MissingLabelsAnyText ==
    (Extracted /\ \E l \in DOMAIN Keys : ~LabelPresent(l)) =>
        \A l \in DOMAIN Keys :
            /\ ~LabelPresent(l) => data[Keys[l]] = NA
            /\ LabelPresent(l) => data[Keys[l]] = ExpectedValue(l)

\* C12 amended: the same for texts whose present labels occur once each and
\* in the order of keys.
C12_MissingLabelsInOrder ==
    (Extracted /\ LabelsInOrder /\ \E l \in DOMAIN Keys : ~LabelPresent(l)) =>
        \A l \in DOMAIN Keys :
            /\ ~LabelPresent(l) => data[Keys[l]] = NA
            /\ LabelPresent(l) => data[Keys[l]] = ExpectedValue(l)

\* first and third label missing, the second ends without a blank line
C12_Witness ==
    /\ Extracted
    /\ FieldLabels = <<2, 4>>
    /\ ~layout.fields[1].blank
    /\ data["Market Demand"] = NA
    /\ data["Top Skills"] = <<"2", "\n", "v">>
    /\ data["Expected Salary Range"] = NA
    /\ data["Aligns with Market Trends"] = <<"4", "\n", "v">>

\* C13: once the oracle call has succeeded, "Raw Output" is the complete
\* oracle text, unchanged, during and after the extraction loop.
C13_RawOutputUntouched ==
    (pc = "keys" \/ Extracted) => data[RawOutput] = text

\* a text with leading and trailing whitespace and a label that was missed
C13_Witness ==
    /\ Extracted
    /\ layout.pre
    /\ text # Strip(text)
    /\ data["Market Demand"] = NA
    /\ data["Top Skills"] # NA
    /\ data[RawOutput] = text

\* C16: the cursor never moves backwards; a label is matched at its first
\* occurrence at or after the end of the previously extracted span and is
\* "N/A" exactly when there is none, so match positions increase strictly.
C16_CursorMonotone ==
    /\ [][current_pos' >= current_pos]_vars
    /\ [](pc \in {"keys", "fetched"} =>
            \A k \in DOMAIN matches :
                LET later == {p \in SpanEndBefore(k)..Len(text) : OccursAt(k, p)}
                IN  /\ matches[k].found <=> later # {}
                    /\ matches[k].found =>
                          /\ matches[k].start \in later
                          /\ \A p \in later : matches[k].start <= p
                          /\ matches[k].end > matches[k].start
                          /\ \A j \in 1..(k - 1) :
                                matches[j].found => matches[j].start < matches[k].start
                    /\ ~matches[k].found => data[Keys[k]] = NA)

\* "Top Skills:" occurs only inside the span extracted for "Market Demand"
C16_Witness ==
    /\ Extracted
    /\ FieldLabels = <<2, 1, 3>>
    /\ matches[1].found
    /\ ~matches[2].found
    /\ OccursAt(2, 0)
    /\ matches[3].found
    /\ data["Top Skills"] = NA

\* ------------------------------------------------ more properties of the interview
\* s is t, or t with one element taken out
ShrunkFrom(s, t) ==
    \/ s = t
    \/ \E i \in DOMAIN t : s = SubSeq(t, 1, i - 1) \o SubSeq(t, i + 1, Len(t))

\* C14: in oracle-driven mode the question presented on a turn is the one
\* the previous advance step selected: the step from the loop head to the
\* prompt leaves question as that selection set it.
C14_AdvanceSelectionPresented ==
    [][(pc = "loop" /\ ~use_csv_branching /\ pc' = "ask") => question' = question]_vars

\* C15: get_next_question_from_gemini is never called with an empty pool: the
\* unguarded call of line 144 is reached only with a non-empty pool, and the
\* question the selector returns for an empty list is never selected or asked.
C15_SelectorPoolNonEmpty ==
    /\ (/\ pc = "loop"
        /\ asked_count < min_questions
        /\ asked_count < 5
        /\ use_csv_branching
        /\ \A i \in DOMAIN questions : questions[i].QuestionID # current_id)
       => remaining_questions # <<>>
    /\ question # DefaultQuestion
    /\ \A i \in DOMAIN history : history[i][1] # DefaultQuestion

\* the start identifier was not found and the unguarded call chose a question
C15_Witness ==
    /\ start_id = "S1"
    /\ pc = "ask"
    /\ asked_count = 0
    /\ current_id = None
    /\ ~use_csv_branching
    /\ question \in Range(remaining_questions)

\* C17: in every step asked_ids and history only grow, the pool only
\* shrinks, and the turn counter equals the length of history.
C17_MonotoneState ==
    /\ [][/\ asked_ids \subseteq asked_ids'
          /\ Len(history') >= Len(history)
          /\ SubSeq(history', 1, Len(history)) = history
          /\ ShrunkFrom(remaining_questions', remaining_questions)
          /\ asked_count' = Len(history')]_vars
    /\ [](asked_count = Len(history))

C17_Witness ==
    /\ pc = "advance"
    /\ Len(history) >= 3
    /\ Cardinality(asked_ids) >= 3
    /\ Len(remaining_questions) >= 2
    /\ answer = Yes

\* C18: the texts in history and the texts in the pool are disjoint and
\* together are the distinct texts of the source.
C18_HistoryPoolPartition ==
    /\ Range(HistoryTexts) \cap Range(remaining_questions) = {}
    /\ Range(HistoryTexts) \cup Range(remaining_questions) = TextSet
    /\ Len(history) + Len(remaining_questions) = NumTexts

\* "c" was asked out of order, "b" is still first in the pool
C18_Witness ==
    /\ pc = "loop"
    /\ Len(history) = 2
    /\ history[2][1] = <<"c">>
    /\ Len(remaining_questions) >= 2
    /\ remaining_questions[1] = <<"b">>

\* C19: when the interview ends, every identifier in asked_ids belongs to a
\* record whose question text is in history.
C19_AskedIdsWereAsked ==
    LoopLeft =>
        \A id \in asked_ids :
            \E i \in DOMAIN questions :
                /\ questions[i].QuestionID = id
                /\ questions[i].Question \in Range(HistoryTexts)

\* C20: never more than min_questions questions are asked, and at the end
\* exactly min(min_questions, number of distinct texts) were.
C20_MinimumIsMaximum ==
    /\ Len(history) <= min_questions
    /\ asked_count <= min_questions
    /\ LoopLeft => Len(history) = Smaller(min_questions, NumTexts)

C20_Witness ==
    /\ pc = "done"
    /\ min_questions >= 3
    /\ Len(history) = min_questions
    /\ NumTexts > min_questions

====
